---- MODULE Spec2Model ----
(***************************************************************************)
(* The asynchronous document pipeline of the document generator service:   *)
(* the request router (src/api/handlers.rs), the rate limiter built in     *)
(* src/api/state.rs, the Kafka topics between router and worker, the       *)
(* worker pool (src/worker.rs), the `documents` status table and the       *)
(* object storage.                                                         *)
(*                                                                         *)
(* Handlers and worker tasks are cut into steps at their .await points:    *)
(* everything between two awaits is one action.                            *)
(***************************************************************************)
EXTENDS Integers, Sequences, FiniteSets, TLC

\* ------------------------------------------------------------------ bounds
\* HTTP requests handled by the router in one behaviour.
MaxCalls == 3
\* Messages on the topics, all partitions together.
MaxMessages == 2
\* Messages put on a topic by a producer other than the router whose
\* payload is no DocumentRequest.
MaxPoison == 1
\* Worker process crashes (each followed by a restart from the committed offsets).
MaxCrashes == 1
\* Replenish intervals of the rate limiter that pass.
MaxTicks == 1
\* AppConfig.rate_limit_burst (configurable, default 20): cells of a full bucket.
rate_limit_burst == 2
\* WorkerConfig.max_concurrent (configurable, default 20): semaphore permits.
max_concurrent == 2
\* Wall-clock time that passes in one step of a running inline render.
RenderStepMs == 5001
\* TemplateCache.ttl_seconds (3600 in TemplateManager::new), in clock steps.
ttl_seconds == 1
\* The clock of the template cache runs from 0 to MaxTime.
MaxTime == 3
\* TemplateManager / TemplateCache calls made in a run.
MaxTemplateOps == 3
\* Failed store operations and process restarts in a run.
MaxTemplateFaults == 1
\* Generation requests handled in a run of the status specification.
MaxStatusCalls == 2
\* The clock of the template engine runs from 0 to MaxEngineTime.
MaxEngineTime == 1

\* ------------------------------------------------------- program constants
max_sync_size_bytes == 1048576
report_sync_ceiling == 100000
retry_after == 60
sync_timeout_ms == 5000

\* ------------------------------------------------------------------ values
Topics == {"priority", "bulk"}
Ids == {1, 2}
Tenants == {1, 2}
Users == {1}

\* DocumentRequest: the fields the router and the worker read.
\*   template "missing" is a template id that exists in no tier.
Request(id, tenant, document_type, priority, format, template, org, size, callback) ==
    [id |-> id, tenant |-> tenant, user |-> 1, document_type |-> document_type,
     priority |-> priority, format |-> format, template |-> template,
     org |-> org, size |-> size, callback |-> callback]

\* Requests submitted in the pipeline specification.
PipelineRequests ==
    { Request(1, 1, "invoice", "normal", "pdf", "known", "org1", 500, TRUE),
      Request(2, 1, "invoice", "low", "pdf", "missing", "org1", 500, FALSE),
      Request(2, 1, "certificate", "high", "pdf", "known", "none", 500, FALSE) }

\* Requests submitted in the status specification: two tenants use the same
\* client-chosen id.
StatusRequests ==
    { Request(1, 1, "invoice", "normal", "pdf", "known", "org1", 500, FALSE),
      Request(1, 2, "invoice", "high", "pdf", "known", "org1", 500, FALSE) }

\* Requests submitted in the router specification.
RouterRequests ==
    { Request(1, 1, "invoice", "normal", "pdf", "known", "org1", 500, FALSE),
      Request(1, 2, "report", "high", "excel", "known", "none", 100000, FALSE),
      Request(2, 2, "invoice", "low", "pdf", "known", "none", 1048577, FALSE),
      Request(2, 1, "receipt", "normal", "pdf", "known", "org1", 500, FALSE),
      Request(1, 1, "report", "normal", "pdf", "known", "org1", 99999, FALSE),
      Request(2, 1, "invoice", "normal", "pdf", "known", "org1", 1048576, FALSE) }

\* DocumentStatus (src/models/document.rs), as written by Display.
Terminal == {"completed", "failed", "cancelled"}

\* A row of the documents table; NoRow stands for "no row with this id".
NoRow == [tenant |-> 0, status |-> "absent", url |-> <<>>, error |-> <<>>]
Row(tenant, status, url, error) ==
    [tenant |-> tenant, status |-> status, url |-> url, error |-> error]

\* HTTP responses.
NoResponse == [status |-> 0, retry_after |-> 0]
Response(status) == [status |-> status, retry_after |-> 0]
TooManyRequests == [status |-> 429, retry_after |-> retry_after]

\* Result<String>: the outcome of a generation routine.
NoResult == [kind |-> "none", val |-> <<>>]
Ok(url) == [kind |-> "ok", val |-> url]
Err(e) == [kind |-> "err", val |-> <<e>>]

VARIABLES
    router_db_enabled, \* whether the statement in save_document_metadata is enabled
    limiter,           \* rate limiter: key -> cells left
    calls,             \* router: the HTTP requests, in arrival order
    log,               \* broker: topic -> messages of its partition
    committed,         \* broker: topic -> last committed offset of the group
    commit_queue,      \* consumer: async commits not yet at the broker
    position,          \* consumer: topic -> next offset to fetch
    permits,           \* worker: available semaphore permits
    tasks,             \* worker: spawned process_single_message tasks
    documents,         \* status store: id -> row
    s3,                \* object storage: keys of stored objects
    hist,              \* per message: deliveries, renders, commits, uploads, status writes
    checks_by,         \* rate-limiter checks made for each tenant:user pair
    ticks,
    crashes,
    last_read          \* the latest get_status / download_document call and its answer

VARIABLES
    memory_cache,      \* per process: TemplateCache.memory_cache, id -> CachedTemplate
    redis_cache,       \* the shared Redis: id -> stored value and its expiry
    loaded_templates,  \* per process: TemplateManager.templates, id -> content
    s3_templates,      \* object storage, bucket "templates": id -> content
    local_files,       \* local_path/{id}.typ: id -> content
    now,               \* Utc::now(), in seconds
    last_call,         \* the latest TemplateManager call and what it returned
    template_ops,      \* number of TemplateManager calls made
    template_faults    \* number of failed store operations and process restarts
template_vars == <<memory_cache, redis_cache, loaded_templates, s3_templates, local_files,
                   now, last_call, template_ops, template_faults>>
pipeline_vars == <<router_db_enabled, limiter, calls, log, committed, commit_queue, position,
                   permits, tasks, documents, s3, hist, checks_by, ticks, crashes,
                   last_read>>

VARIABLES
    engine_calls,      \* the generate_pdf_from_template / preview_template calls
    temp_files,        \* the output directories: file -> the call whose content it holds
    engine_clock       \* chrono::Utc::now().timestamp()
engine_vars == <<engine_calls, temp_files, engine_clock>>

vars == <<pipeline_vars, template_vars, engine_vars>>

broker_vars == <<log, committed, commit_queue, position>>
worker_vars == <<permits, tasks>>

\* ------------------------------------------------------------ rate limiter
\* format!("{}:{}", tenant_id, user_id)
RateLimitKey(tenant, user) == <<tenant, user>>
\* user_id.to_string()
UploadRateLimitKey(user) == <<user>>

Pairs == Tenants \X Users
RateLimitKeys == {RateLimitKey(p[1], p[2]) : p \in Pairs} \cup {UploadRateLimitKey(u) : u \in Users}

\* RateLimiter::check_key: Ok while the key's bucket holds a cell.
check_key(lim, key) == lim[key] > 0
\* The state of the limiter after check_key: a cell is taken only when the check passes.
after_check(lim, key) == IF check_key(lim, key) THEN [lim EXCEPT ![key] = @ - 1] ELSE lim

Min(a, b) == IF a < b THEN a ELSE b

\* ------------------------------------------------------------------ broker
\* serde_json::to_vec(&request): the payload of a job envelope.  A payload
\* that is no serialized DocumentRequest has kind "empty" or "garbage".
NoRequest == Request(0, 0, "none", "none", "none", "none", "none", 0, FALSE)
Serialize(r) == [kind |-> "json", req |-> r]
PoisonPayloads == {[kind |-> "empty", req |-> NoRequest], [kind |-> "garbage", req |-> NoRequest]}
\* msg.payload() is Some and serde_json::from_slice succeeds.
Parses(payload) == payload.kind = "json"
Deserialize(payload) == payload.req

\* What happened to a message so far: the kinds of result its generation
\* routine returned, the commit calls made for it, the keys uploaded for it,
\* the terminal statuses that reached its row, and how its latest task ended.
NewHist == [renders |-> {}, commits |-> 0, keys |-> {}, terms |-> {}, end |-> "none"]

\* FutureRecord::to(topic).key(id).payload(payload), acknowledged by the broker.
Publish(topic, key, payload) ==
    /\ log' = [log EXCEPT ![topic] = Append(@, [key |-> key, payload |-> payload])]
    /\ hist' = [hist EXCEPT ![topic] = Append(@, NewHist)]

MessageCount == Len(log["priority"]) + Len(log["bulk"])

\* A topic choice that sends Normal to the priority topic as well.
TopicForAllButLow(priority) == IF priority = "low" THEN "bulk" ELSE "priority"

\* match data.priority { High => kafka_topic_priority, _ => kafka_topic_bulk }
TopicFor(priority) == IF priority = "high" THEN "priority" ELSE "bulk"

\* ------------------------------------------------------------ status store
\* The router's upsert into documents (the statement of save_document_metadata):
\* INSERT ... ON CONFLICT(id) DO UPDATE SET status, url, error.
Upsert(docs, id, tenant, status, url, error) ==
    IF docs[id] = NoRow
        THEN [docs EXCEPT ![id] = Row(tenant, status, url, error)]
        ELSE [docs EXCEPT ![id] = Row(@.tenant, status, url, error)]

\* save_document_metadata: its statement is commented out in the source
\* ("TODO: Enable when database is configured"); router_db_enabled tells
\* whether the build under study has it enabled.
save_document_metadata(docs, id, tenant, status, url, error) ==
    IF router_db_enabled THEN Upsert(docs, id, tenant, status, url, error) ELSE docs

\* Whether save_document_metadata can return an error: never as shipped.
SaveOutcomes == IF router_db_enabled THEN {"ok", "db_err"} ELSE {"ok"}

\* A SELECT on documents that matches on the id alone.
get_document_status_by_id(docs, id, tenant) ==
    IF router_db_enabled THEN docs[id] ELSE NoRow

\* get_document_status: its query, SELECT ... WHERE id = ?1 AND tenant_id = ?2,
\* is commented out in the source like the statement of
\* save_document_metadata, and the function returns Ok(None).
get_document_status(docs, id, tenant) ==
    IF router_db_enabled /\ docs[id] # NoRow /\ docs[id].tenant = tenant
        THEN docs[id] ELSE NoRow

\* A get_status or download_document call: who asked for which id, the HTTP
\* status of the answer and the record (or the record whose url was presigned).
Read(ep, id, tenant, status, doc) ==
    [ep |-> ep, id |-> id, tenant |-> tenant, status |-> status, doc |-> doc]
NoRead == Read("none", 0, 0, 0, NoRow)

\* GET /documents/{id}/status
get_status(id, tenant) ==
    LET doc == get_document_status(documents, id, tenant) IN
    Read("status", id, tenant, IF doc # NoRow THEN 200 ELSE 404, doc)

\* GET /documents/{id}/download: a redirect to the presigned url of a
\* Completed record, 404 without url or record, 400 for a record not Completed.
download_document(id, tenant, presigned) ==
    LET doc == get_document_status(documents, id, tenant) IN
    IF doc = NoRow THEN Read("download", id, tenant, 404, NoRow)
    ELSE IF doc.status # "completed" THEN Read("download", id, tenant, 400, NoRow)
    ELSE IF doc.url = <<>> THEN Read("download", id, tenant, 404, NoRow)
    ELSE IF presigned THEN Read("download", id, tenant, 302, doc)
    ELSE Read("download", id, tenant, 500, NoRow)

GetStatus(id, tenant) ==
    /\ last_read' = get_status(id, tenant)
    /\ UNCHANGED <<engine_vars, template_vars, router_db_enabled, limiter, calls, broker_vars, worker_vars,
                   documents, s3, hist, checks_by, ticks, crashes>>

DownloadDocument(id, tenant) ==
    /\ \E presigned \in BOOLEAN : last_read' = download_document(id, tenant, presigned)
    /\ UNCHANGED <<engine_vars, template_vars, router_db_enabled, limiter, calls, broker_vars, worker_vars,
                   documents, s3, hist, checks_by, ticks, crashes>>

\* ------------------------------------------------------------------ router
Call(ep, r, pc, resp, result) ==
    [ep |-> ep, req |-> r, pc |-> pc, resp |-> resp, result |-> result, elapsed_ms |-> 0]

Charge(chk, r) == [chk EXCEPT ![<<r.tenant, r.user>>] = @ + 1]

\* A generate_async that sends to the broker before it looks at the limiter.
generate_async_publish_first(ep, r, lim, chk) ==
    LET key == RateLimitKey(r.tenant, r.user) IN
    /\ checks_by' = Charge(chk, r)
    /\ limiter' = after_check(lim, key)
    /\ Publish(TopicFor(r.priority), r.id, Serialize(r))
    /\ IF ~check_key(lim, key)
         THEN calls' = Append(calls, Call(ep, r, "done", TooManyRequests, NoResult))
         ELSE calls' = Append(calls, Call(ep, r, "save_queued", NoResponse, NoResult))

\* A generate_async that goes on to the Queued record and the 202 whether or
\* not the broker acknowledged the send.
generate_async_ignoring_delivery(ep, r, lim, chk) ==
    LET key == RateLimitKey(r.tenant, r.user) IN
    /\ checks_by' = Charge(chk, r)
    /\ limiter' = after_check(lim, key)
    /\ IF ~check_key(lim, key)
         THEN /\ calls' = Append(calls, Call(ep, r, "done", TooManyRequests, NoResult))
              /\ UNCHANGED <<log, hist>>
         ELSE \E delivery \in {"acked", "failed"} :
                IF delivery = "acked"
                  THEN /\ Publish(TopicFor(r.priority), r.id, Serialize(r))
                       /\ calls' = Append(calls, Call(ep, r, "save_queued", NoResponse, NoResult))
                  ELSE /\ calls' = Append(calls, Call(ep, r, "save_queued", NoResponse, NoResult))
                       /\ UNCHANGED <<log, hist>>

\* generate_async from its entry to the end of the producer's send:
\* rate-limit check, topic selection, publish.  lim and chk are the limiter
\* and the check counters the handler starts from (generate_sync calls this
\* handler after its own check).
generate_async(ep, r, lim, chk) ==
    LET key == RateLimitKey(r.tenant, r.user) IN
    /\ checks_by' = Charge(chk, r)
    /\ limiter' = after_check(lim, key)
    /\ IF ~check_key(lim, key)
         THEN /\ calls' = Append(calls, Call(ep, r, "done", TooManyRequests, NoResult))
              /\ UNCHANGED <<log, hist>>
         ELSE \E delivery \in {"acked", "failed"} :
                IF delivery = "acked"
                  THEN /\ Publish(TopicFor(r.priority), r.id, Serialize(r))
                       /\ calls' = Append(calls, Call(ep, r, "save_queued", NoResponse, NoResult))
                  ELSE /\ calls' = Append(calls, Call(ep, r, "done", Response(500), NoResult))
                       /\ UNCHANGED <<log, hist>>

\* An inline match that admits a Report of exactly the ceiling.
InlineEligibleAtCeiling(r) ==
    \/ r.document_type = "invoice"
    \/ r.document_type = "report" /\ r.size <= report_sync_ceiling

\* The inline match of generate_sync: Invoice, or Report below the ceiling.
InlineEligible(r) ==
    \/ r.document_type = "invoice"
    \/ r.document_type = "report" /\ r.size < report_sync_ceiling

\* generate_sync from its entry to its first await.
generate_sync(r) ==
    LET key == RateLimitKey(r.tenant, r.user) IN
    IF ~check_key(limiter, key)
      THEN /\ calls' = Append(calls, Call("sync", r, "done", TooManyRequests, NoResult))
           /\ checks_by' = Charge(checks_by, r)
           /\ UNCHANGED <<limiter, log, hist>>
      ELSE IF r.size > max_sync_size_bytes \/ ~InlineEligible(r)
             THEN generate_async("sync", r, after_check(limiter, key), Charge(checks_by, r))
             ELSE /\ calls' = Append(calls, Call("sync", r, "render", NoResponse, NoResult))
                  /\ checks_by' = Charge(checks_by, r)
                  /\ limiter' = after_check(limiter, key)
                  /\ UNCHANGED <<log, hist>>

\* POST /documents/generate/async
GenerateAsync(r) ==
    /\ Len(calls) < MaxCalls
    /\ MessageCount < MaxMessages
    /\ generate_async("async", r, limiter, checks_by)
    /\ UNCHANGED <<engine_vars, template_vars, last_read, router_db_enabled, committed, commit_queue, position, permits, tasks,
                   documents, s3, ticks, crashes>>

\* POST /documents/generate/sync
GenerateSync(r) ==
    /\ Len(calls) < MaxCalls
    /\ MessageCount < MaxMessages
    /\ generate_sync(r)
    /\ UNCHANGED <<engine_vars, template_vars, last_read, router_db_enabled, committed, commit_queue, position, permits, tasks,
                   documents, s3, ticks, crashes>>

\* generate_async after the publish was acknowledged: the Queued record, then 202.
AsyncSave(i) ==
    /\ calls[i].pc = "save_queued"
    /\ \E outcome \in SaveOutcomes :
         IF outcome = "ok"
           THEN /\ documents' = save_document_metadata(documents, calls[i].req.id,
                                   calls[i].req.tenant, "queued", <<>>, <<>>)
                /\ calls' = [calls EXCEPT ![i].pc = "done", ![i].resp = Response(202)]
           ELSE /\ documents' = documents
                /\ calls' = [calls EXCEPT ![i].pc = "done", ![i].resp = Response(500)]
    /\ UNCHANGED <<engine_vars, template_vars, last_read, router_db_enabled, limiter, broker_vars, worker_vars, s3, hist,
                   checks_by, ticks, crashes>>

\* request.metadata.organization_id.unwrap_or_else(|| format!("tenant_{}", tenant_id))
OrgOrTenant(r) == IF r.org = "none" THEN <<"tenant", r.tenant>> ELSE <<r.org>>

\* The storage key of the inline path: generate_invoice_sync / generate_report_sync.
SyncKey(r) ==
    IF r.document_type = "invoice"
        THEN <<"invoices", OrgOrTenant(r), r.id, "pdf">>
        ELSE <<"reports", OrgOrTenant(r), r.id, "xlsx">>

\* An inline render that, when it fails, puts the request on the queue.
SyncRenderFallingBack(i) ==
    /\ calls[i].pc = "render"
    /\ \E outcome \in {"ok", "generate_err", "upload_err"} :
         IF outcome = "ok"
           THEN /\ s3' = s3 \cup {SyncKey(calls[i].req)}
                /\ calls' = [calls EXCEPT ![i].pc = "save_completed",
                                          ![i].result = Ok(SyncKey(calls[i].req))]
                /\ UNCHANGED <<log, hist>>
           ELSE /\ s3' = s3
                /\ Publish(TopicFor(calls[i].req.priority), calls[i].req.id,
                           Serialize(calls[i].req))
                /\ calls' = [calls EXCEPT ![i].pc = "done", ![i].resp = Response(500),
                                          ![i].result = Err(outcome)]
    /\ UNCHANGED <<engine_vars, template_vars, last_read, router_db_enabled, limiter, committed, commit_queue, position,
                   worker_vars, documents, checks_by, ticks, crashes>>

\* The inline render of generate_sync: generate, upload, and on error the 500.
SyncRender(i) ==
    /\ calls[i].pc = "render"
    /\ \E outcome \in {"ok", "generate_err", "upload_err"} :
         IF outcome = "ok"
           THEN /\ s3' = s3 \cup {SyncKey(calls[i].req)}
                /\ calls' = [calls EXCEPT ![i].pc = "save_completed",
                                          ![i].result = Ok(SyncKey(calls[i].req))]
           ELSE /\ s3' = s3
                /\ calls' = [calls EXCEPT ![i].pc = "done", ![i].resp = Response(500),
                                          ![i].result = Err(outcome)]
    /\ UNCHANGED <<engine_vars, template_vars, last_read, router_db_enabled, limiter, broker_vars, worker_vars, documents, hist,
                   checks_by, ticks, crashes>>

\* Time passes while generate_sync awaits its inline render; the handler
\* sets no timer and does nothing when the time exceeds sync_timeout_ms.
RenderRuns(i) ==
    /\ calls[i].pc = "render"
    /\ calls[i].elapsed_ms <= sync_timeout_ms
    /\ calls' = [calls EXCEPT ![i].elapsed_ms = @ + RenderStepMs]
    /\ UNCHANGED <<engine_vars, template_vars, last_read, router_db_enabled, limiter, broker_vars, worker_vars, documents, s3,
                   hist, checks_by, ticks, crashes>>

\* generate_sync after a successful inline render: the Completed record, then 200.
SyncSave(i) ==
    /\ calls[i].pc = "save_completed"
    /\ \E outcome \in SaveOutcomes :
         IF outcome = "ok"
           THEN /\ documents' = save_document_metadata(documents, calls[i].req.id,
                                   calls[i].req.tenant, "completed", calls[i].result.val, <<>>)
                /\ calls' = [calls EXCEPT ![i].pc = "done", ![i].resp = Response(200)]
           ELSE /\ documents' = documents
                /\ calls' = [calls EXCEPT ![i].pc = "done", ![i].resp = Response(500)]
    /\ UNCHANGED <<engine_vars, template_vars, last_read, router_db_enabled, limiter, broker_vars, worker_vars, s3, hist,
                   checks_by, ticks, crashes>>

\* The upload request of a tenant's user (its body is not modelled).
UploadRequest(tenant, user) ==
    [NoRequest EXCEPT !.tenant = tenant, !.user = user, !.document_type = "upload"]

\* POST /documents/upload: rate-limit check on the user id alone, body size
\* limit, upload to the temp bucket under a fresh key.
upload_data(tenant, user) ==
    LET key == UploadRateLimitKey(user)
        r == UploadRequest(tenant, user)
        n == Cardinality({k \in s3 : k[1] = "uploads"}) IN
    /\ checks_by' = Charge(checks_by, r)
    /\ limiter' = after_check(limiter, key)
    /\ IF ~check_key(limiter, key)
         THEN /\ calls' = Append(calls, Call("upload", r, "done", TooManyRequests, NoResult))
              /\ s3' = s3
         ELSE \E outcome \in {"stored", "too_large", "upload_err"} :
                /\ calls' = Append(calls, Call("upload", r, "done",
                              Response(CASE outcome = "stored" -> 200
                                         [] outcome = "too_large" -> 413
                                         [] OTHER -> 500), NoResult))
                /\ s3' = IF outcome = "stored"
                           THEN s3 \cup {<<"uploads", <<user>>, n + 1, "json">>}
                           ELSE s3

UploadData(tenant, user) ==
    /\ Len(calls) < MaxCalls
    /\ upload_data(tenant, user)
    /\ UNCHANGED <<engine_vars, template_vars, last_read, router_db_enabled, broker_vars, worker_vars, documents, hist, ticks, crashes>>

\* One replenish interval of the quota passes: every bucket regains a cell.
Tick ==
    /\ ticks < MaxTicks
    /\ ticks' = ticks + 1
    /\ limiter' = [k \in RateLimitKeys |-> Min(limiter[k] + 1, rate_limit_burst)]
    /\ UNCHANGED <<engine_vars, template_vars, last_read, router_db_enabled, calls, broker_vars, worker_vars, documents, s3, hist,
                   checks_by, crashes>>

\* ------------------------------------------------------------------ worker
Task(topic, off, pc, result) == [topic |-> topic, off |-> off, pc |-> pc, result |-> result]
MessageOf(t) == log[t.topic][t.off]
RequestOf(t) == Deserialize(MessageOf(t).payload)

\* UPDATE documents SET status = $1 WHERE id = $2: changes nothing when no row has the id.
update_status(docs, id, status) ==
    IF docs[id] = NoRow THEN docs ELSE [docs EXCEPT ![id].status = status]

\* UPDATE documents SET status = 'completed', url = $2 WHERE id = $4
save_completed_document(docs, id, url) ==
    IF docs[id] = NoRow THEN docs ELSE [docs EXCEPT ![id].status = "completed", ![id].url = url]

\* UPDATE documents SET status = 'failed', error = $2 WHERE id = $3
save_failed_document(docs, id, error) ==
    IF docs[id] = NoRow THEN docs ELSE [docs EXCEPT ![id].status = "failed", ![id].error = error]

\* The storage key of generate_invoice and generate_report:
\* format!("invoices/{}/{}.pdf", organization_id, id), format!("reports/{}/{}.{}", ...).
WorkerKey(r) ==
    IF r.document_type = "invoice"
        THEN <<"invoices", <<r.org>>, r.id, "pdf">>
        ELSE <<"reports", <<r.org>>, r.id, IF r.format = "excel" THEN "xlsx" ELSE "pdf">>

\* The results the generation routine of a request can return: generate_invoice,
\* generate_report (template lookup, compilation, upload), generate_custom.
GenerationResults(r) ==
    IF r.document_type \notin {"invoice", "report"}
        THEN {Err("Custom document type not implemented")}
    ELSE IF r.document_type = "report" /\ r.format \notin {"excel", "pdf"}
        THEN {Err("Unsupported format")}
    ELSE IF r.template = "missing"
        THEN {Err("Template not found")}
    ELSE {Ok(WorkerKey(r)), Err("Typst compilation failed"), Err("upload failed")}

\* A task end that forgets the permit.
TaskEndsKeepingPermit(t) ==
    /\ tasks' = tasks \ {t}
    /\ permits' = permits

\* The end of a spawned task: it leaves the pool and its permit is dropped.
TaskEnds(t) ==
    /\ tasks' = tasks \ {t}
    /\ permits' = permits + 1

\* hist after the task of a message ended for the given reason.
Ended(h, t, reason) == [h EXCEPT ![t.topic][t.off].end = reason]

TaskMoves(t, pc, result) ==
    /\ tasks' = (tasks \ {t}) \cup {Task(t.topic, t.off, pc, result)}
    /\ permits' = permits

\* process_messages: a message arrives from the stream, a permit is acquired
\* and the task is spawned.
Deliver(topic) ==
    /\ position[topic] <= Len(log[topic])
    /\ permits > 0
    /\ permits' = permits - 1
    /\ tasks' = tasks \cup {Task(topic, position[topic], "start", NoResult)}
    /\ position' = [position EXCEPT ![topic] = @ + 1]
    /\ UNCHANGED <<engine_vars, template_vars, last_read, router_db_enabled, limiter, calls, log, committed, commit_queue,
                   documents, s3, hist, checks_by, ticks, crashes>>

\* process_single_message up to the Processing status: an empty or
\* undeserializable payload returns the error at once.
TaskStart(t) ==
    /\ t.pc = "start"
    /\ IF ~Parses(MessageOf(t).payload)
         THEN /\ TaskEnds(t)
              /\ hist' = Ended(hist, t, "err_payload")
              /\ documents' = documents
         ELSE \E outcome \in {"ok", "db_err"} :
                IF outcome = "ok"
                  THEN /\ documents' = update_status(documents, RequestOf(t).id, "processing")
                       /\ TaskMoves(t, "generate", NoResult)
                       /\ hist' = hist
                  ELSE /\ documents' = documents
                       /\ TaskEnds(t)
                       /\ hist' = Ended(hist, t, "err_status")
    /\ UNCHANGED <<engine_vars, template_vars, last_read, router_db_enabled, limiter, calls, broker_vars, s3, checks_by,
                   ticks, crashes>>

\* A generation routine that returns the url without having stored the object.
TaskGenerateWithoutUpload(t) ==
    /\ t.pc = "generate"
    /\ \E result \in GenerationResults(RequestOf(t)) :
         /\ TaskMoves(t, "save", result)
         /\ s3' = s3
         /\ hist' = [hist EXCEPT ![t.topic][t.off] =
                       [@ EXCEPT !.renders = @ \cup {result.kind},
                                 !.keys = IF result.kind = "ok" THEN @ \cup {result.val} ELSE @]]
    /\ UNCHANGED <<engine_vars, template_vars, last_read, router_db_enabled, limiter, calls, broker_vars, documents, checks_by,
                   ticks, crashes>>

\* The generation routine of the request's type, with its upload.
TaskGenerate(t) ==
    /\ t.pc = "generate"
    /\ \E result \in GenerationResults(RequestOf(t)) :
         /\ TaskMoves(t, "save", result)
         /\ s3' = IF result.kind = "ok" THEN s3 \cup {result.val} ELSE s3
         /\ hist' = [hist EXCEPT ![t.topic][t.off] =
                       [@ EXCEPT !.renders = @ \cup {result.kind},
                                 !.keys = IF result.kind = "ok" THEN @ \cup {result.val} ELSE @]]
    /\ UNCHANGED <<engine_vars, template_vars, last_read, router_db_enabled, limiter, calls, broker_vars, documents, checks_by,
                   ticks, crashes>>

\* consumer.commit_message(&msg, CommitMode::Async)
commit_message(queue, t) == Append(queue, [topic |-> t.topic, off |-> t.off])

\* The match on the result: save_completed_document or save_failed_document
\* (the status UPDATE, then update_statistics), and only when that returned
\* Ok the commit.  A successful job with a callback URL goes on to the webhook.
TaskSave(t) ==
    /\ t.pc = "save"
    /\ \E outcome \in {"ok", "db_err", "stats_err"} :
         LET id == RequestOf(t).id
             status == IF t.result.kind = "ok" THEN "completed" ELSE "failed"
             wrote == outcome # "db_err" /\ documents[id] # NoRow
             waits == outcome = "ok" /\ t.result.kind = "ok" /\ RequestOf(t).callback
             reason == IF outcome # "ok" THEN "err_save"
                       ELSE IF t.result.kind = "ok" THEN "ok" ELSE "err_generate"
         IN
         /\ documents' = IF outcome = "db_err" THEN documents
                         ELSE IF t.result.kind = "ok"
                           THEN save_completed_document(documents, id, t.result.val)
                           ELSE save_failed_document(documents, id, t.result.val)
         /\ commit_queue' = IF outcome = "ok" THEN commit_message(commit_queue, t)
                            ELSE commit_queue
         /\ hist' = [hist EXCEPT ![t.topic][t.off] =
                       [@ EXCEPT !.terms = IF wrote THEN @ \cup {status} ELSE @,
                                 !.commits = IF outcome = "ok" THEN @ + 1 ELSE @,
                                 !.end = IF waits THEN @ ELSE reason]]
         /\ IF waits THEN TaskMoves(t, "callback", t.result) ELSE TaskEnds(t)
    /\ UNCHANGED <<engine_vars, template_vars, last_read, router_db_enabled, limiter, calls, log, committed, position, s3,
                   checks_by, ticks, crashes>>

\* send_callback: the webhook's outcome is ignored.
TaskCallback(t) ==
    /\ t.pc = "callback"
    /\ TaskEnds(t)
    /\ hist' = Ended(hist, t, "ok")
    /\ UNCHANGED <<engine_vars, template_vars, last_read, router_db_enabled, limiter, calls, broker_vars, documents, s3,
                   checks_by, ticks, crashes>>

\* A panic inside the spawned task: the task is torn down and its locals,
\* the permit among them, are dropped.
TaskPanic(t) ==
    /\ TaskEnds(t)
    /\ hist' = Ended(hist, t, "panic")
    /\ UNCHANGED <<engine_vars, template_vars, last_read, router_db_enabled, limiter, calls, broker_vars, documents, s3,
                   checks_by, ticks, crashes>>

\* An asynchronous commit reaches the broker: the group's offset of the
\* partition becomes the committed message's offset, whatever it was before.
BrokerCommit ==
    /\ commit_queue # <<>>
    /\ committed' = [committed EXCEPT ![Head(commit_queue).topic] = Head(commit_queue).off]
    /\ commit_queue' = Tail(commit_queue)
    /\ UNCHANGED <<engine_vars, template_vars, last_read, router_db_enabled, limiter, calls, log, position, worker_vars, documents,
                   s3, hist, checks_by, ticks, crashes>>

\* The worker process dies and is started again: tasks, permits and pending
\* commits are gone, consumption resumes after the committed offsets
\* (enable.auto.commit = false).
Crash ==
    /\ crashes < MaxCrashes
    /\ crashes' = crashes + 1
    /\ tasks' = {}
    /\ permits' = max_concurrent
    /\ commit_queue' = <<>>
    /\ position' = [tp \in Topics |-> committed[tp] + 1]
    /\ UNCHANGED <<engine_vars, template_vars, last_read, router_db_enabled, limiter, calls, log, committed, documents, s3, hist,
                   checks_by, ticks>>

\* Another producer puts a message on a topic whose payload is no DocumentRequest.
PoisonCount == Cardinality({<<tp, o>> \in Topics \X (1..MaxMessages) :
                              o <= Len(log[tp]) /\ ~Parses(log[tp][o].payload)})
PoisonPublish(topic, payload) ==
    /\ PoisonCount < MaxPoison
    /\ MessageCount < MaxMessages
    /\ Publish(topic, 0, payload)
    /\ UNCHANGED <<engine_vars, template_vars, last_read, router_db_enabled, limiter, calls, committed, commit_queue, position,
                   worker_vars, documents, s3, checks_by, ticks, crashes>>

\* ---------------------------------------------------------- template cache
\* The processes that own a TemplateManager (the API server and the worker),
\* the template ids and the contents a template can have.
Procs == {1, 2}
TemplateIds == {"invoice", "receipt"}
Contents == {"v1", "v2"}

\* CachedTemplate; NoTemplate stands for "no entry" (None).
NoTemplate == [content |-> "none", compiled_at |-> 0, ttl_seconds |-> 0, version |-> "none"]
CachedTemplate(content, compiled_at, version) ==
    [content |-> content, compiled_at |-> compiled_at, ttl_seconds |-> ttl_seconds,
     version |-> version]

\* An expiry test that lets an entry live one second longer.
is_expired_late(template, time) == time > template.compiled_at + template.ttl_seconds + 1

\* CachedTemplate::is_expired at the given time.
is_expired(template, time) == time > template.compiled_at + template.ttl_seconds

\* serde_json::to_string / from_str of a CachedTemplate: its four fields.
to_string(template) ==
    <<template.content, template.compiled_at, template.ttl_seconds, template.version>>
from_str(str) ==
    [content |-> str[1], compiled_at |-> str[2], ttl_seconds |-> str[3], version |-> str[4]]

\* A Redis key: its value and the time its expiry (SETEX) is due.
NoValue == [value |-> <<>>, expires_at |-> 0]
set_ex(rds, id, value, seconds) ==
    [rds EXCEPT ![id] = [value |-> value, expires_at |-> now + seconds]]

\* What redis.get can hand to TemplateCache::get: nothing (no key, key
\* expired, connection or parse error) or the stored entry; a key whose
\* expiry is due at this very moment may or may not be there still.
RedisReplies(id) ==
    {NoTemplate} \cup
        (IF redis_cache[id] # NoValue /\ now <= redis_cache[id].expires_at
           THEN {from_str(redis_cache[id].value)} ELSE {})

\* TemplateCache::get: the entry returned, the tier that answered (0: none)
\* and the memory cache afterwards.
cache_get(p, id, reply) ==
    LET m == memory_cache[p][id]
        hit1 == m # NoTemplate /\ ~is_expired(m, now)
        hit2 == reply # NoTemplate /\ ~is_expired(reply, now)
    IN [entry |-> IF hit1 THEN m ELSE IF hit2 THEN reply ELSE NoTemplate,
        tier |-> IF hit1 THEN 1 ELSE IF hit2 THEN 2 ELSE 0,
        memory |-> IF ~hit1 /\ hit2 THEN [memory_cache EXCEPT ![p][id] = reply]
                   ELSE memory_cache]

\* TemplateCache::set: the memory cache is written, then Redis; a Redis
\* error is returned after the memory cache was written.
cache_set(mem, p, id, content, version, redis_ok) ==
    LET cached == CachedTemplate(content, now, version) IN
    [memory |-> [mem EXCEPT ![p][id] = cached],
     redis |-> IF redis_ok THEN set_ex(redis_cache, id, to_string(cached), ttl_seconds)
               ELSE redis_cache,
     ok |-> redis_ok]

TemplateCall(op, p, id, kind, content, from) ==
    [op |-> op, proc |-> p, id |-> id, kind |-> kind, content |-> content, from |-> from]
NoCall == TemplateCall("none", 0, "none", "none", "none", "none")

\* A resolution that reads the local file only and records a memory entry
\* for the id whether or not anything was found.
get_template_caching_misses(p, id, reply, redis_ok, s3_ok) ==
    LET content == local_files[id] IN
    /\ redis_ok /\ s3_ok /\ reply = NoTemplate
    /\ template_faults' = template_faults
    /\ memory_cache' = [memory_cache EXCEPT ![p][id] = CachedTemplate(content, now, "1.0.0")]
    /\ UNCHANGED <<redis_cache, loaded_templates>>
    /\ last_call' = IF content = "none"
                      THEN TemplateCall("get", p, id, "err", "Template not found", "none")
                      ELSE TemplateCall("get", p, id, "ok", content, "file")

\* TemplateManager::get_template: cache, loaded templates, S3, local file.
get_template(p, id, reply, redis_ok, s3_ok) ==
    LET c == cache_get(p, id, reply)
        loaded == loaded_templates[p][id]
        from == IF c.tier = 1 THEN "tier1"
                ELSE IF c.tier = 2 THEN "tier2"
                ELSE IF loaded # "none" THEN "loaded"
                ELSE IF s3_ok /\ s3_templates[id] # "none" THEN "s3"
                ELSE IF local_files[id] # "none" THEN "file"
                ELSE "none"
        content == CASE from \in {"tier1", "tier2"} -> c.entry.content
                     [] from = "loaded" -> loaded
                     [] from = "s3" -> s3_templates[id]
                     [] OTHER -> local_files[id]
        st == cache_set(c.memory, p, id, content, "1.0.0", redis_ok)
        faults == (IF c.tier = 0 /\ from # "none" /\ ~redis_ok THEN 1 ELSE 0)
                  + (IF c.tier = 0 /\ loaded = "none" /\ ~s3_ok THEN 1 ELSE 0)
                  + (IF reply = NoTemplate /\ redis_cache[id] # NoValue
                        /\ now < redis_cache[id].expires_at THEN 1 ELSE 0)
    IN
    /\ template_faults + faults <= MaxTemplateFaults
    /\ template_faults' = template_faults + faults
    /\ IF from \in {"tier1", "tier2"}
         THEN /\ memory_cache' = c.memory
              /\ last_call' = TemplateCall("get", p, id, "ok", content, from)
              /\ UNCHANGED <<redis_cache, loaded_templates>>
         ELSE IF from = "none"
         THEN /\ last_call' = TemplateCall("get", p, id, "err", "Template not found", from)
              /\ UNCHANGED <<memory_cache, redis_cache, loaded_templates>>
         ELSE /\ memory_cache' = st.memory
              /\ redis_cache' = st.redis
              /\ loaded_templates' = IF st.ok /\ from \in {"s3", "file"}
                                       THEN [loaded_templates EXCEPT ![p][id] = content]
                                       ELSE loaded_templates
              /\ last_call' = IF st.ok THEN TemplateCall("get", p, id, "ok", content, from)
                              ELSE TemplateCall("get", p, id, "err", "redis", from)

GetTemplate(p, id) ==
    /\ template_ops < MaxTemplateOps
    /\ template_ops' = template_ops + 1
    /\ \E reply \in RedisReplies(id) : \E redis_ok \in BOOLEAN : \E s3_ok \in BOOLEAN :
         get_template(p, id, reply, redis_ok, s3_ok)
    /\ UNCHANGED <<engine_vars, pipeline_vars, s3_templates, local_files, now>>

\* TemplateManager::update_template: loaded templates, cache (memory, then
\* Redis), S3, local file; the first failing store ends the call.
update_template(p, id, content, outcome) ==
    LET st == cache_set(memory_cache, p, id, content, "1.0.0", outcome # "redis_err") IN
    /\ loaded_templates' = [loaded_templates EXCEPT ![p][id] = content]
    /\ memory_cache' = st.memory
    /\ redis_cache' = st.redis
    /\ s3_templates' = IF outcome \in {"ok", "fs_err"}
                         THEN [s3_templates EXCEPT ![id] = content] ELSE s3_templates
    /\ local_files' = IF outcome = "ok"
                        THEN [local_files EXCEPT ![id] = content] ELSE local_files
    /\ last_call' = TemplateCall("update", p, id, IF outcome = "ok" THEN "ok" ELSE "err",
                                 content, outcome)

UpdateTemplate(p, id, content) ==
    /\ template_ops < MaxTemplateOps
    /\ template_ops' = template_ops + 1
    /\ \E outcome \in {"ok", "redis_err", "s3_err", "fs_err"} :
         /\ outcome # "ok" => template_faults < MaxTemplateFaults
         /\ template_faults' = IF outcome = "ok" THEN template_faults ELSE template_faults + 1
         /\ update_template(p, id, content, outcome)
    /\ UNCHANGED <<engine_vars, pipeline_vars, now>>

\* TemplateCache::invalidate: the memory entry is removed, then the Redis key.
Invalidate(p, id) ==
    /\ template_ops < MaxTemplateOps
    /\ template_ops' = template_ops + 1
    /\ memory_cache' = [memory_cache EXCEPT ![p][id] = NoTemplate]
    /\ \E redis_ok \in BOOLEAN :
         /\ ~redis_ok => template_faults < MaxTemplateFaults
         /\ template_faults' = IF redis_ok THEN template_faults ELSE template_faults + 1
         /\ redis_cache' = IF redis_ok THEN [redis_cache EXCEPT ![id] = NoValue]
                           ELSE redis_cache
         /\ last_call' = TemplateCall("invalidate", p, id, IF redis_ok THEN "ok" ELSE "err",
                                      "none", "none")
    /\ UNCHANGED <<engine_vars, pipeline_vars, loaded_templates, s3_templates, local_files, now>>

\* A reload that leaves the loaded template in place, so that the next
\* resolution is answered by the loaded-template map.
reload_template_keeping_loaded(p, id, del_ok, redis_ok, s3_ok) ==
    LET content == loaded_templates[p][id]
        cached == CachedTemplate(content, now, "1.0.0")
    IN
    /\ del_ok /\ redis_ok /\ content # "none"
    /\ memory_cache' = [memory_cache EXCEPT ![p][id] = cached]
    /\ redis_cache' = set_ex(redis_cache, id, to_string(cached), ttl_seconds)
    /\ UNCHANGED loaded_templates
    /\ last_call' = TemplateCall("reload", p, id, "ok", content, "loaded")

\* TemplateManager::reload_template: cache.invalidate (memory entry, then the
\* Redis key), the loaded template is removed, then get_template, which now
\* misses the cache and the loaded templates and goes to S3, then the file.
reload_template(p, id, del_ok, redis_ok, s3_ok) ==
    LET removed == [memory_cache EXCEPT ![p][id] = NoTemplate]
        deleted == [redis_cache EXCEPT ![id] = NoValue]
        unloaded == [loaded_templates EXCEPT ![p][id] = "none"]
        from == IF s3_ok /\ s3_templates[id] # "none" THEN "s3"
                ELSE IF local_files[id] # "none" THEN "file"
                ELSE "none"
        content == IF from = "s3" THEN s3_templates[id] ELSE local_files[id]
        cached == CachedTemplate(content, now, "1.0.0")
    IN
    IF ~del_ok
      THEN /\ memory_cache' = removed
           /\ UNCHANGED <<redis_cache, loaded_templates>>
           /\ last_call' = TemplateCall("reload", p, id, "err", "redis", "none")
    ELSE IF from = "none"
      THEN /\ memory_cache' = removed
           /\ redis_cache' = deleted
           /\ loaded_templates' = unloaded
           /\ last_call' = TemplateCall("reload", p, id, "err", "Template not found", from)
    ELSE /\ memory_cache' = [removed EXCEPT ![p][id] = cached]
         /\ redis_cache' = IF redis_ok THEN set_ex(deleted, id, to_string(cached), ttl_seconds)
                           ELSE deleted
         /\ loaded_templates' = IF redis_ok THEN [unloaded EXCEPT ![p][id] = content]
                                 ELSE unloaded
         /\ last_call' = IF redis_ok THEN TemplateCall("reload", p, id, "ok", content, from)
                         ELSE TemplateCall("reload", p, id, "err", "redis", from)

ReloadTemplate(p, id) ==
    /\ template_ops < MaxTemplateOps
    /\ template_ops' = template_ops + 1
    /\ \E del_ok \in BOOLEAN : \E redis_ok \in BOOLEAN : \E s3_ok \in BOOLEAN :
         LET faults == (IF ~del_ok THEN 1 ELSE 0)
                       + (IF del_ok /\ ~s3_ok THEN 1 ELSE 0)
                       + (IF del_ok /\ ~redis_ok
                             /\ ((s3_ok /\ s3_templates[id] # "none") \/ local_files[id] # "none")
                            THEN 1 ELSE 0)
         IN /\ template_faults + faults <= MaxTemplateFaults
            /\ template_faults' = template_faults + faults
            /\ reload_template(p, id, del_ok, redis_ok, s3_ok)
    /\ UNCHANGED <<engine_vars, pipeline_vars, s3_templates, local_files, now>>

\* A process dies and is started again: its memory cache and its loaded
\* templates start empty.
Restart(p) ==
    /\ template_faults < MaxTemplateFaults
    /\ template_faults' = template_faults + 1
    /\ memory_cache' = [memory_cache EXCEPT ![p] = [id \in TemplateIds |-> NoTemplate]]
    /\ loaded_templates' = [loaded_templates EXCEPT ![p] = [id \in TemplateIds |-> "none"]]
    /\ UNCHANGED <<engine_vars, pipeline_vars, redis_cache, s3_templates, local_files, now, last_call,
                   template_ops>>

\* A second passes.
Advance ==
    /\ now < MaxTime
    /\ now' = now + 1
    /\ UNCHANGED <<engine_vars, pipeline_vars, memory_cache, redis_cache, loaded_templates, s3_templates,
                   local_files, last_call, template_ops, template_faults>>

\* The template stores at start: the file of the invoice template exists,
\* nothing is cached or loaded.
TemplateInit ==
    /\ memory_cache = [p \in Procs |-> [id \in TemplateIds |-> NoTemplate]]
    /\ redis_cache = [id \in TemplateIds |-> NoValue]
    /\ loaded_templates = [p \in Procs |-> [id \in TemplateIds |-> "none"]]
    /\ s3_templates = [id \in TemplateIds |-> "none"]
    /\ local_files = [id \in TemplateIds |-> IF id = "invoice" THEN "v1" ELSE "none"]
    /\ now = 0
    /\ last_call = NoCall
    /\ template_ops = 0
    /\ template_faults = 0

\* --------------------------------------------------------- template engine
\* Concurrent handler calls that run TemplateEngine::generate_pdf, and the
\* templates of the registry they ask for.
EngineCalls == {1, 2}
EngineTemplates == {"invoice", "receipt"}

\* base_filename: output_filename, which preview_template sets to
\* format!("preview_{}", template_id), or format!("{}_{}", template_id, timestamp).
BaseFilename(kind, template, timestamp) ==
    IF kind = "preview"
        THEN [prefix |-> "preview", template |-> template, timestamp |-> 0]
        ELSE [prefix |-> "none", template |-> template, timestamp |-> timestamp]
NoBase == [prefix |-> "none", template |-> "none", timestamp |-> 0]

\* TemplateEngine::new(_, output_dir) of the two handlers.
OutputDir(base) == IF base.prefix = "preview" THEN "temp" ELSE "facturas"

\* format!("{}/{}.typ", output_dir, base_filename) and its .pdf sibling.
typ_path(base) == [dir |-> OutputDir(base), base |-> base, ext |-> "typ"]
pdf_path(base) == [dir |-> OutputDir(base), base |-> base, ext |-> "pdf"]

Bases ==
    {BaseFilename(kind, t, ts) :
        kind \in {"generate", "preview"}, t \in EngineTemplates, ts \in 0..MaxEngineTime}
TempPaths == {typ_path(b) : b \in Bases} \cup {pdf_path(b) : b \in Bases}

EngineCall(kind, base, pc, outcome, got) ==
    [kind |-> kind, base |-> base, pc |-> pc, outcome |-> outcome, got |-> got]
IdleCall == EngineCall("none", NoBase, "idle", "none", 0)

\* A handler enters generate_pdf: template lookup, validation, markup, and
\* the two paths from the output file name or the current second.
EngineStart(c, kind, template) ==
    /\ engine_calls[c].pc = "idle"
    /\ engine_calls' = [engine_calls EXCEPT ![c] =
           EngineCall(kind, BaseFilename(kind, template, engine_clock), "write", "none", 0)]
    /\ UNCHANGED <<pipeline_vars, template_vars, temp_files, engine_clock>>

\* fs::write(&typ_path, &typst_content)
EngineWrite(c) ==
    /\ engine_calls[c].pc = "write"
    /\ temp_files' = [temp_files EXCEPT ![typ_path(engine_calls[c].base)] = c]
    /\ engine_calls' = [engine_calls EXCEPT ![c].pc = "compile"]
    /\ UNCHANGED <<pipeline_vars, template_vars, engine_clock>>

\* typst compile typ_path pdf_path: the PDF is made from whatever the .typ
\* file holds; without the file the compiler exits with an error.
EngineCompile(c) ==
    LET typ == typ_path(engine_calls[c].base)
        pdf == pdf_path(engine_calls[c].base)
    IN
    /\ engine_calls[c].pc = "compile"
    /\ IF temp_files[typ] = 0
         THEN /\ temp_files' = temp_files
              /\ engine_calls' = [engine_calls EXCEPT ![c].pc = "cleanup", ![c].outcome = "err"]
         ELSE /\ temp_files' = [temp_files EXCEPT ![pdf] = temp_files[typ]]
              /\ engine_calls' = [engine_calls EXCEPT ![c].pc = "cleanup"]
    /\ UNCHANGED <<pipeline_vars, template_vars, engine_clock>>

\* fs::remove_file(&typ_path).ok(), then the compiler's exit status: an
\* error ends the handler with 500, otherwise the handler goes on to read.
EngineCleanup(c) ==
    /\ engine_calls[c].pc = "cleanup"
    /\ temp_files' = [temp_files EXCEPT ![typ_path(engine_calls[c].base)] = 0]
    /\ engine_calls' = [engine_calls EXCEPT
                          ![c].pc = IF engine_calls[c].outcome = "err" THEN "done" ELSE "read"]
    /\ UNCHANGED <<pipeline_vars, template_vars, engine_clock>>

\* tokio::fs::read(&pdf_path): the bytes answered (or uploaded), or the 500
\* "Failed to read PDF".
EngineRead(c) ==
    LET pdf == pdf_path(engine_calls[c].base) IN
    /\ engine_calls[c].pc = "read"
    /\ engine_calls' = IF temp_files[pdf] = 0
                         THEN [engine_calls EXCEPT ![c].pc = "done", ![c].outcome = "err"]
                         ELSE [engine_calls EXCEPT ![c].pc = "remove",
                                                   ![c].got = temp_files[pdf]]
    /\ UNCHANGED <<pipeline_vars, template_vars, temp_files, engine_clock>>

\* let _ = tokio::fs::remove_file(&pdf_path), then the 200.
EngineRemove(c) ==
    /\ engine_calls[c].pc = "remove"
    /\ temp_files' = [temp_files EXCEPT ![pdf_path(engine_calls[c].base)] = 0]
    /\ engine_calls' = [engine_calls EXCEPT ![c].pc = "done", ![c].outcome = "ok"]
    /\ UNCHANGED <<pipeline_vars, template_vars, engine_clock>>

\* A second passes.
EngineTick ==
    /\ engine_clock < MaxEngineTime
    /\ engine_clock' = engine_clock + 1
    /\ UNCHANGED <<pipeline_vars, template_vars, engine_calls, temp_files>>

EngineInit ==
    /\ engine_calls = [c \in EngineCalls |-> IdleCall]
    /\ temp_files = [f \in TempPaths |-> 0]
    /\ engine_clock = 0

\* ---------------------------------------------------------- specifications
Init ==
    /\ router_db_enabled \in BOOLEAN
    /\ limiter = [k \in RateLimitKeys |-> rate_limit_burst]
    /\ calls = <<>>
    /\ log = [tp \in Topics |-> <<>>]
    /\ committed = [tp \in Topics |-> 0]
    /\ commit_queue = <<>>
    /\ position = [tp \in Topics |-> 1]
    /\ permits = max_concurrent
    /\ tasks = {}
    /\ documents = [id \in Ids |-> NoRow]
    /\ s3 = {}
    /\ hist = [tp \in Topics |-> <<>>]
    /\ checks_by = [p \in Pairs |-> 0]
    /\ ticks = 0
    /\ crashes = 0
    /\ last_read = NoRead
    /\ TemplateInit
    /\ EngineInit

\* The asynchronous pipeline: async admission, broker, worker pool.
Next ==
    \/ \E r \in PipelineRequests : GenerateAsync(r)
    \/ \E i \in 1..Len(calls) : AsyncSave(i)
    \/ \E payload \in PoisonPayloads : PoisonPublish("bulk", payload)
    \/ \E tp \in Topics : Deliver(tp)
    \/ \E t \in tasks : TaskStart(t)
    \/ \E t \in tasks : TaskGenerate(t)
    \/ \E t \in tasks : TaskSave(t)
    \/ \E t \in tasks : TaskCallback(t)
    \/ \E t \in tasks : TaskPanic(t)
    \/ BrokerCommit
    \/ Crash

Spec == Init /\ [][Next]_vars

\* The router alone: its three rate-limited endpoints and the passage of time.
RouterNext ==
    \/ \E r \in RouterRequests : GenerateSync(r)
    \/ \E r \in RouterRequests : GenerateAsync(r)
    \/ \E p \in Pairs : UploadData(p[1], p[2])
    \/ \E i \in 1..Len(calls) : AsyncSave(i)
    \/ \E i \in 1..Len(calls) : SyncRender(i)
    \/ \E i \in 1..Len(calls) : RenderRuns(i)
    \/ \E i \in 1..Len(calls) : SyncSave(i)
    \/ Tick

RouterSpec == Init /\ [][RouterNext]_vars

\* The two generation endpoints, for the first MaxStatusCalls requests.
StatusGenerateSync(r) ==
    /\ Len(calls) < MaxStatusCalls
    /\ GenerateSync(r)

StatusGenerateAsync(r) ==
    /\ Len(calls) < MaxStatusCalls
    /\ GenerateAsync(r)

\* Router, worker and the two read endpoints of the status store.
StatusNext ==
    \/ \E r \in StatusRequests : StatusGenerateSync(r)
    \/ \E r \in StatusRequests : StatusGenerateAsync(r)
    \/ \E i \in 1..Len(calls) : AsyncSave(i)
    \/ \E i \in 1..Len(calls) : SyncRender(i)
    \/ \E i \in 1..Len(calls) : SyncSave(i)
    \/ \E tp \in Topics : Deliver(tp)
    \/ \E t \in tasks : TaskStart(t)
    \/ \E t \in tasks : TaskGenerate(t)
    \/ \E t \in tasks : TaskSave(t)
    \/ BrokerCommit
    \/ \E id \in Ids : \E tenant \in Tenants : GetStatus(id, tenant)
    \/ \E id \in Ids : \E tenant \in Tenants : DownloadDocument(id, tenant)

StatusSpec == Init /\ [][StatusNext]_vars

\* The template managers of the processes, the stores behind them and the clock.
TemplateNext ==
    \/ \E p \in Procs : \E id \in TemplateIds : GetTemplate(p, id)
    \/ \E p \in Procs : \E id \in TemplateIds : \E content \in Contents :
          UpdateTemplate(p, id, content)
    \/ \E p \in Procs : \E id \in TemplateIds : Invalidate(p, id)
    \/ \E p \in Procs : \E id \in TemplateIds : ReloadTemplate(p, id)
    \/ \E p \in Procs : Restart(p)
    \/ Advance

TemplateSpec == Init /\ [][TemplateNext]_vars

\* The handlers that run the template engine, and the clock.
EngineNext ==
    \/ \E c \in EngineCalls : \E kind \in {"generate", "preview"} :
          \E template \in EngineTemplates : EngineStart(c, kind, template)
    \/ \E c \in EngineCalls : EngineWrite(c)
    \/ \E c \in EngineCalls : EngineCompile(c)
    \/ \E c \in EngineCalls : EngineCleanup(c)
    \/ \E c \in EngineCalls : EngineRead(c)
    \/ \E c \in EngineCalls : EngineRemove(c)
    \/ EngineTick

EngineSpec == Init /\ [][EngineNext]_vars

\* ------------------------------------------------------------------ claims
Messages == {<<tp, o>> \in Topics \X (1..MaxMessages) : o <= Len(log[tp])}
IsJob(m) == Parses(log[m[1]][m[2]].payload)
JobId(m) == Deserialize(log[m[1]][m[2]].payload).id
InFlight(m) == \E t \in tasks : t.topic = m[1] /\ t.off = m[2]

\* Nothing is left for router, broker or worker to do.
Quiescent ==
    /\ \A i \in 1..Len(calls) : calls[i].pc = "done"
    /\ tasks = {}
    /\ commit_queue = <<>>
    /\ \A tp \in Topics : position[tp] > Len(log[tp])

\* No worker crashed, and every task ran to the end of process_single_message
\* without a store error or a panic.
FaultFree ==
    /\ crashes = 0
    /\ \A m \in Messages : hist[m[1]][m[2]].end \in {"none", "ok", "err_generate"}

\* C1: every request that generate_async answered with 202 ends with a
\* Completed or Failed status record: once router, broker and worker have
\* nothing left to do, no accepted request is without a terminal record.
\* Stated for the runs that ask least of the pipeline: no crash, no panic,
\* no failing store operation.
C1_AcceptedEndsTerminal ==
    (Quiescent /\ FaultFree) =>
        \A i \in 1..Len(calls) :
            calls[i].resp.status = 202 =>
                documents[calls[i].req.id].status \in {"completed", "failed"}

\* C2: a commit is issued for a job only when the job's Completed or Failed
\* status is in the status store.
C2_CommitOnlyAfterTerminalWritten ==
    [][Len(commit_queue') > Len(commit_queue) =>
          LET c == commit_queue'[Len(commit_queue')] IN
          documents'[JobId(<<c.topic, c.off>>)].status \in {"completed", "failed"}]_vars

\* C3: when the worker crashes, every job that is in flight and has not
\* reached its own commit is fetched again after the restart.
C3_CrashRedelivers ==
    [][crashes' = crashes + 1 =>
          \A t \in tasks : t.pc # "callback" => position'[t.topic] <= t.off]_vars

\* C4: a job whose generation routine returned an error gets status Failed
\* with the error text and one commit when its task returns, is never
\* committed twice and never rendered again.
C4_FailedJobCommittedOnce ==
    [][\A t \in tasks :
          LET h == hist[t.topic][t.off]
              h2 == hist'[t.topic][t.off]
              id == RequestOf(t).id
          IN
          /\ (/\ t.pc = "save" /\ t.result.kind = "err" /\ t \notin tasks'
              /\ crashes' = crashes /\ h2.end # "panic")
                => /\ h2.commits = 1
                   /\ documents'[id].status = "failed"
                   /\ documents'[id].error = t.result.val
          /\ (t.pc = "generate" /\ "err" \in h.renders) => h2.renders = h.renders]_vars

\* C5: a message whose payload is empty or no DocumentRequest is committed
\* by the task that received it, is never rendered and never delivered again.
C5_PoisonCommitted ==
    \A m \in Messages :
        (~IsJob(m) /\ hist[m[1]][m[2]].end = "err_payload") =>
            /\ hist[m[1]][m[2]].commits >= 1
            /\ hist[m[1]][m[2]].renders = {}
            /\ ~InFlight(m)

\* The transitions of a status record: created Queued, Queued to
\* Processing, Processing to a terminal state.
StatusStep(from, to) ==
    \/ from = to
    \/ from = "absent" /\ to = "queued"
    \/ from = "queued" /\ to = "processing"
    \/ from = "processing" /\ to \in Terminal

C8_PermitsMatchTasks ==
    /\ Cardinality(tasks) <= max_concurrent
    /\ permits >= 0
    /\ permits + Cardinality(tasks) = max_concurrent

\* C8 witness: one job holds its permit after the task of another message
\* has ended by a panic.
C8_Witness ==
    /\ crashes = 0
    /\ Cardinality(tasks) = 1
    /\ permits = max_concurrent - 1
    /\ \E m \in Messages : ~InFlight(m) /\ hist[m[1]][m[2]].end = "panic"

\* C9: a request that generate_sync or generate_async meets with an empty
\* bucket is answered 429 with retry_after, and a 429 from these handlers
\* ends the request without publish, status write, upload or render.
C9_RejectionHasNoEffect ==
    [][Len(calls') > Len(calls) =>
          LET c == calls'[Len(calls')] IN
          c.ep \in {"sync", "async"} =>
              /\ ~check_key(limiter, RateLimitKey(c.req.tenant, c.req.user))
                    => c.resp.status = 429
              /\ c.resp.status = 429 =>
                    /\ c.resp.retry_after = retry_after
                    /\ c.pc = "done"
                    /\ log' = log
                    /\ documents' = documents
                    /\ s3' = s3
                    /\ hist' = hist]_vars

\* C9 witness: generate_sync or generate_async has answered 429.
C9_Witness ==
    \E i \in 1..Len(calls) : calls[i].ep \in {"sync", "async"} /\ calls[i].resp.status = 429

\* C10: while no replenish interval has passed, a request of a tenant:user
\* pair that follows rate_limit_burst requests of the pair for its
\* tenant:user key is rejected with 429, and on every rate-limited endpoint a
\* pair is rejected only when the pair itself has used up its burst.
C10_PerPairQuota ==
    (ticks = 0) =>
        \A i \in 1..Len(calls) :
            LET pair == <<calls[i].req.tenant, calls[i].req.user>>
                earlier == Cardinality({j \in 1..(i - 1) :
                              /\ calls[j].ep \in {"sync", "async"}
                              /\ <<calls[j].req.tenant, calls[j].req.user>> = pair})
            IN
            /\ calls[i].resp.status = 429 => checks_by[pair] > rate_limit_burst
            /\ (calls[i].ep \in {"sync", "async"} /\ earlier >= rate_limit_burst)
                  => calls[i].resp.status = 429

\* The routing rule of the sync endpoint in the words of its contract.
RoutesAsync(r) ==
    \/ r.size > max_sync_size_bytes
    \/ r.document_type \notin {"invoice", "report"}
    \/ r.document_type = "report" /\ ~(r.size < 100000)

\* C11: an admitted generate_sync request goes the async way exactly when
\* its size exceeds max_sync_size_bytes, its type is neither Invoice nor
\* Report, or it is a Report not below 100,000 bytes; every other request is
\* rendered inline, and no step of an inline request publishes.
C11_SyncRouting ==
    [][/\ Len(calls') > Len(calls) =>
             LET c == calls'[Len(calls')] IN
             (c.ep = "sync" /\ check_key(limiter, RateLimitKey(c.req.tenant, c.req.user))) =>
                 /\ (c.pc # "render") <=> RoutesAsync(c.req)
                 /\ c.pc = "render" => log' = log
       /\ \A i \in 1..Len(calls) :
             (calls[i].pc \in {"render", "save_completed"} /\ calls'[i] # calls[i])
                 => log' = log]_vars

\* C11 witness: a Report of exactly 100,000 bytes went the async way and an
\* Invoice of exactly max_sync_size_bytes was rendered inline.
C11_Witness ==
    /\ \E i \in 1..Len(calls) :
          /\ calls[i].ep = "sync" /\ calls[i].req.document_type = "report"
          /\ calls[i].req.size = 100000 /\ calls[i].resp.status = 202
    /\ \E i \in 1..Len(calls) :
          /\ calls[i].ep = "sync" /\ calls[i].req.size = max_sync_size_bytes
          /\ calls[i].resp.status = 200

\* C12: for a request above the sync ceiling, generate_sync leaves what a
\* direct generate_async leaves from the same state: the limiter is charged
\* as by one check, and the request is rejected exactly when that one check
\* finds the bucket empty; an admitted request is published once to the
\* topic of its priority.
C12_SyncEqualsAsync ==
    [][Len(calls') > Len(calls) =>
          LET c == calls'[Len(calls')]
              key == RateLimitKey(c.req.tenant, c.req.user) IN
          (c.ep = "sync" /\ c.req.size > max_sync_size_bytes) =>
              /\ limiter' = after_check(limiter, key)
              /\ c.resp.status = 429 <=> ~check_key(limiter, key)
              /\ c.pc = "save_queued" =>
                    log' = [log EXCEPT ![TopicFor(c.req.priority)] =
                               Append(@, [key |-> c.req.id, payload |-> Serialize(c.req)])]]_vars

\* C13: when the inline render of generate_sync fails, the request ends with
\* a 500 in that step, nothing is published in that step, and an ended
\* request takes no further step.
C13_InlineFailureIsTerminal ==
    [][\A i \in 1..Len(calls) :
          /\ (calls[i].pc = "render" /\ calls'[i].result.kind = "err") =>
                /\ calls'[i].resp.status = 500
                /\ calls'[i].pc = "done"
                /\ log' = log
          /\ calls[i].pc = "done" => calls'[i] = calls[i]]_vars

\* C13 witness: an inline render has failed and its request was answered 500.
C13_Witness ==
    \E i \in 1..Len(calls) :
        /\ calls[i].ep = "sync" /\ calls[i].result.kind = "err"
        /\ calls[i].resp.status = 500 /\ calls[i].pc = "done"

\* C14: an inline render that has run longer than sync_timeout_ms without
\* having uploaded is given up: the next step of its request publishes it
\* and leaves it waiting for its Queued record.
C14_TimeoutFallsBackToAsync ==
    [][\A i \in 1..Len(calls) :
          (/\ calls[i].pc = "render"
           /\ calls[i].elapsed_ms > sync_timeout_ms
           /\ calls'[i] # calls[i]) =>
              /\ calls'[i].pc = "save_queued"
              /\ MessageCount' = MessageCount + 1]_vars

\* C15: a request that passed the rate-limit check and whose handler runs to
\* its end (by an inline render, successful or failed, or by a save after a
\* publish) ends through one save step that leaves its status record written,
\* and a request is put on the queue by one publish, made when it is admitted
\* on the async path.
C15_OneWriteOnePublish ==
    [][/\ \A i \in 1..Len(calls) :
             (calls[i].ep \in {"sync", "async"} /\ calls[i].pc # "done" /\ calls'[i].pc = "done") =>
                 /\ calls[i].pc \in {"save_queued", "save_completed"}
                 /\ documents'[calls[i].req.id].status =
                        (IF calls[i].pc = "save_queued" THEN "queued" ELSE "completed")
                 /\ log' = log
       /\ Len(calls') > Len(calls) =>
             LET c == calls'[Len(calls')] IN
             /\ c.pc = "save_queued" => MessageCount' = MessageCount + 1
             /\ c.pc # "save_queued" => log' = log]_vars

\* The request of a call is on the queue: some message carries its envelope.
OnQueue(lg, r) ==
    \E tp \in Topics : \E o \in 1..Len(lg[tp]) :
        lg[tp][o].key = r.id /\ lg[tp][o].payload = Serialize(r)

\* C16: a 202 is given only to a request whose envelope the broker already
\* holds, and a request whose send failed ends in that step with a 5xx,
\* without a message on the queue and without a status record written.
C16_AcceptedOnlyAfterAck ==
    [][/\ \A i \in 1..Len(calls) :
             (calls[i].resp.status # 202 /\ calls'[i].resp.status = 202) =>
                 OnQueue(log, calls[i].req)
       /\ Len(calls') > Len(calls) =>
             LET c == calls'[Len(calls')] IN
             (c.ep = "async" /\ log' = log /\ c.resp.status # 429) =>
                 /\ c.pc = "done"
                 /\ c.resp.status >= 500
                 /\ documents' = documents]_vars

\* C16 witness: one request was answered 500 because its send failed and is
\* not on the queue, another was answered 202.
C16_Witness ==
    /\ \E i \in 1..Len(calls) :
          /\ calls[i].ep = "async" /\ calls[i].resp.status = 500
          /\ ~OnQueue(log, calls[i].req)
    /\ \E i \in 1..Len(calls) : calls[i].ep = "async" /\ calls[i].resp.status = 202

\* Both ways to a Completed record together: the inline path of the router
\* and the worker path behind the queue, with the worker crashing.
StoreNext ==
    \/ \E r \in PipelineRequests : GenerateSync(r)
    \/ \E r \in PipelineRequests : GenerateAsync(r)
    \/ \E i \in 1..Len(calls) : AsyncSave(i)
    \/ \E i \in 1..Len(calls) : SyncRender(i)
    \/ \E i \in 1..Len(calls) : SyncSave(i)
    \/ \E tp \in Topics : Deliver(tp)
    \/ \E t \in tasks : TaskStart(t)
    \/ \E t \in tasks : TaskGenerate(t)
    \/ \E t \in tasks : TaskSave(t)
    \/ \E t \in tasks : TaskCallback(t)
    \/ BrokerCommit
    \/ Crash

StoreSpec == Init /\ [][StoreNext]_vars

DurableContents(id) == {s3_templates[id], local_files[id]} \ {"none"}

\* C18: get_template answers from tier 1 when tier 1 holds a non-expired
\* entry, touching nothing else; otherwise from tier 2 when tier 2 holds a
\* non-expired entry, which is copied into tier 1; otherwise it returns
\* content that the durable store holds and leaves that content in tiers 1
\* and 2.  Stated for calls in runs without a failing store and without a
\* restart.
C18_TierOrder ==
    [][(template_ops' = template_ops + 1 /\ last_call'.op = "get" /\ template_faults' = 0) =>
          LET p == last_call'.proc
              id == last_call'.id
              m == memory_cache[p][id]
              hit1 == m # NoTemplate /\ ~is_expired(m, now)
              r == redis_cache[id]
              hit2 == r # NoValue /\ now < r.expires_at /\ ~is_expired(from_str(r.value), now)
          IN
          /\ hit1 => /\ last_call' = TemplateCall("get", p, id, "ok", m.content, "tier1")
                     /\ memory_cache' = memory_cache
                     /\ redis_cache' = redis_cache
          /\ (~hit1 /\ hit2) =>
                     /\ last_call' = TemplateCall("get", p, id, "ok",
                                                  from_str(r.value).content, "tier2")
                     /\ memory_cache'[p][id] = from_str(r.value)
                     /\ redis_cache' = redis_cache
          /\ (~hit1 /\ ~hit2 /\ last_call'.from # "tier2" /\ last_call'.kind = "ok") =>
                     /\ last_call'.content \in DurableContents(id)
                     /\ memory_cache'[p][id].content = last_call'.content
                     /\ redis_cache'[id] # NoValue
                     /\ from_str(redis_cache'[id].value).content = last_call'.content]_vars

\* C19: in every state, whatever Redis replies, TemplateCache::get returns no
\* entry older than compiled_at + ttl_seconds, from tier 1 or tier 2, and it
\* returns the tier-1 entry whose age is exactly ttl_seconds.
C19_NoExpiredEntryServed ==
    \A p \in Procs : \A id \in TemplateIds : \A reply \in RedisReplies(id) :
        LET got == cache_get(p, id, reply)
            m == memory_cache[p][id]
        IN
        /\ got.tier # 0 =>
              /\ got.entry # NoTemplate
              /\ now <= got.entry.compiled_at + got.entry.ttl_seconds
        /\ (m # NoTemplate /\ now = m.compiled_at + m.ttl_seconds) =>
              got.tier = 1 /\ got.entry = m

\* C19 witness: a call was answered from tier 2 with an entry whose age is
\* exactly ttl_seconds, while another process holds an expired tier-1 entry.
C19_Witness ==
    /\ last_call.op = "get" /\ last_call.from = "tier2"
    /\ now = memory_cache[last_call.proc][last_call.id].compiled_at + ttl_seconds
    /\ \E p \in Procs : \E id \in TemplateIds :
          memory_cache[p][id] # NoTemplate /\ is_expired(memory_cache[p][id], now)

\* C20: after a template write, finished or failed at any step, the writer's
\* tier-1 entry and the tier-2 entry of that id hold only content that object
\* storage or the local file holds.
C20_CacheNeverAheadOfStore ==
    [][(template_ops' = template_ops + 1 /\ last_call'.op = "update") =>
          LET p == last_call'.proc
              id == last_call'.id
              durable == {s3_templates'[id], local_files'[id]} \ {"none"}
          IN
          /\ memory_cache'[p][id] # NoTemplate => memory_cache'[p][id].content \in durable
          /\ redis_cache'[id] # NoValue => from_str(redis_cache'[id].value).content \in durable]_vars

\* The entries of every id other than the given one are the same before and
\* after the step, in every tier and in the loaded templates.
OtherIdsUnchanged(id) ==
    \A id2 \in TemplateIds \ {id} :
        /\ \A q \in Procs : memory_cache'[q][id2] = memory_cache[q][id2]
        /\ \A q \in Procs : loaded_templates'[q][id2] = loaded_templates[q][id2]
        /\ redis_cache'[id2] = redis_cache[id2]

C22_LastSetWins ==
    [][(template_ops' = template_ops + 1 /\ template_faults' = 0
          /\ last_call.op = "update" /\ last_call.kind = "ok" /\ last_call.id = "receipt"
          /\ last_call'.op = "get" /\ last_call'.id = "receipt") =>
          LET v == last_call.content IN
          /\ last_call'.kind = "ok"
          /\ last_call'.content = v
          /\ redis_cache'["receipt"] # NoValue =>
                from_str(redis_cache'["receipt"].value).content = v
          /\ s3_templates'["receipt"] = v
          /\ local_files'["receipt"] = v]_vars

\* C23: in every state, a tier-1 entry that is younger than its TTL has the
\* content and version of the tier-2 entry of the same id.
C23_Tier1ReplicatesTier2 ==
    \A p \in Procs : \A id \in TemplateIds :
        LET m == memory_cache[p][id] IN
        (m # NoTemplate /\ now < m.compiled_at + m.ttl_seconds) =>
            /\ redis_cache[id] # NoValue
            /\ from_str(redis_cache[id].value).content = m.content
            /\ from_str(redis_cache[id].value).version = m.version

\* C24: a get of an id that has no entry in the caller's memory cache, in
\* Redis, in the caller's loaded templates, in object storage and among the
\* local files ends with the error "Template not found" and changes no cache
\* tier and no loaded template.
C24_NotFoundChangesNothing ==
    [][(template_ops' = template_ops + 1 /\ last_call'.op = "get"
          /\ memory_cache[last_call'.proc][last_call'.id] = NoTemplate
          /\ redis_cache[last_call'.id] = NoValue
          /\ loaded_templates[last_call'.proc][last_call'.id] = "none"
          /\ s3_templates[last_call'.id] = "none"
          /\ local_files[last_call'.id] = "none") =>
          /\ last_call'.kind = "err"
          /\ last_call'.content = "Template not found"
          /\ memory_cache' = memory_cache
          /\ redis_cache' = redis_cache
          /\ loaded_templates' = loaded_templates]_vars

\* C24 witness: a get ended with "Template not found" for an id that is in no
\* store, while the caller holds another template in its caches.
C24_Witness ==
    /\ last_call.op = "get" /\ last_call.content = "Template not found"
    /\ memory_cache[last_call.proc][last_call.id] = NoTemplate
    /\ redis_cache[last_call.id] = NoValue
    /\ s3_templates[last_call.id] = "none" /\ local_files[last_call.id] = "none"
    /\ \E id2 \in TemplateIds :
          memory_cache[last_call.proc][id2] # NoTemplate /\ redis_cache[id2] # NoValue

\* The router has answered 200 or 202 to a request of the tenant with the id.
Answered(id, tenant) ==
    \E i \in 1..Len(calls) :
        /\ calls[i].pc = "done" /\ calls[i].resp.status \in {200, 202}
        /\ calls[i].req.id = id /\ calls[i].req.tenant = tenant

\* C25: a get_status call for an id, made by a tenant after the router
\* answered 200 or 202 to that tenant's request with the id, is answered 200
\* with the status the store holds for the id at that moment.
C25_StatusReadsLatest ==
    [][(last_read' # last_read /\ last_read'.ep = "status"
          /\ Answered(last_read'.id, last_read'.tenant)) =>
          /\ last_read'.status = 200
          /\ last_read'.doc.status = documents[last_read'.id].status
          /\ documents[last_read'.id] # NoRow]_vars

C27_TopicByPriority ==
    [][LET admitted == Len(calls') = Len(calls) + 1
                         /\ calls'[Len(calls')].pc = "save_queued"
           r == calls'[Len(calls')].req
           lane == IF r.priority = "high" THEN "priority" ELSE "bulk"
       IN
       /\ admitted =>
             /\ r.priority \in {"high", "normal", "low"}
             /\ log'[lane] = Append(log[lane], [key |-> r.id, payload |-> Serialize(r)])
             /\ \A tp \in Topics \ {lane} : log'[tp] = log[tp]
       /\ log' # log => admitted]_vars

\* C27 witness: a High request is on the priority topic, a Normal or Low one
\* on the bulk topic, and both were admitted.
C27_Witness ==
    /\ Len(log["priority"]) = 1 /\ Len(log["bulk"]) = 1
    /\ Deserialize(log["priority"][1].payload).priority = "high"
    /\ Deserialize(log["bulk"][1].payload).priority \in {"normal", "low"}
    /\ \A i \in 1..Len(calls) : calls[i].pc = "done" /\ calls[i].resp.status = 202

\* C28: a request whose type is neither Invoice nor Report is never rendered
\* by generate_sync; its job never yields a document or a Completed status;
\* and when its task ran to the end without a store error, a panic or a
\* crash, the status of its id is Failed and one commit was issued for it.
C28_UnsupportedTypeEndsFailed ==
    /\ \A i \in 1..Len(calls) :
          calls[i].req.document_type \notin {"invoice", "report", "upload"} =>
              /\ calls[i].pc \notin {"render", "save_completed"}
              /\ calls[i].result = NoResult
              /\ calls[i].resp.status # 200
    /\ \A m \in Messages :
          (IsJob(m) /\ Deserialize(log[m[1]][m[2]].payload).document_type
                          \notin {"invoice", "report"}) =>
              LET h == hist[m[1]][m[2]] IN
              /\ "ok" \notin h.renders
              /\ "completed" \notin h.terms
              /\ (crashes = 0 /\ h.end = "err_generate") =>
                    /\ documents[JobId(m)].status = "failed"
                    /\ h.commits = 1

====
